---- MODULE Spec2Model ----
(***************************************************************************)
(* Ring-Tac-Toe: the packed ternary Ring and the Board built on it         *)
(* (src/src/lib.rs).  A u32 is kept as two 16-bit limbs <<hi, lo>> so that  *)
(* the wrapping arithmetic of the source is computed bit for bit.          *)
(***************************************************************************)
EXTENDS Integers, Sequences, FiniteSets, TLC

\* ------------------------------------------------------------------------
\* Bounds of the model
\* ------------------------------------------------------------------------
\* Longest exhaustively enumerated cell sequence handed to from_iter.
MaxSeqLen == 2
\* Number of operations applied to a constructed ring in Spec.
MaxOps == 2
\* Longest board whose cells are mutated in SpecBoard.
MaxBoardCells == 5

\* ------------------------------------------------------------------------
\* Program constants
\* ------------------------------------------------------------------------
\* "32 bits is big enough to store rings of up to 20 cells."
MaxCells == 20
\* u8 indices and shift amounts range over 0..255.
U8Max == 2^8 - 1

\* ------------------------------------------------------------------------
\* u32 arithmetic (field `int: u32`), two 16-bit limbs, most significant first
\* ------------------------------------------------------------------------
Limb == 2^16
Half == 2^15

U32(n) == <<n \div Limb, n % Limb>>
Zero == U32(0)
One == U32(1)

\* a < b on u32
LtU(a, b) == a[1] < b[1] \/ (a[1] = b[1] /\ a[2] < b[2])

\* a + b on u32: the wrapped sum and whether it overflowed
AddU(a, b) ==
    LET lo == a[2] + b[2]
        hi == a[1] + b[1] + (lo \div Limb)
    IN  [v |-> <<hi % Limb, lo % Limb>>, ovf |-> hi >= Limb]

\* a.wrapping_sub(b)
SubU(a, b) ==
    LET borrow == IF a[2] < b[2] THEN 1 ELSE 0
    IN  <<(a[1] + Limb - b[1] - borrow) % Limb, (a[2] + Limb - b[2]) % Limb>>

\* a * 3 on u32: the wrapped product and whether it overflowed
Mul3(a) ==
    LET lo == a[2] * 3
        hi == a[1] * 3 + (lo \div Limb)
    IN  [v |-> <<hi % Limb, lo % Limb>>, ovf |-> hi >= Limb]

\* the exact product of two 16-bit limbs, as a u32
Mul16(x, y) ==
    LET p == x * (y \div 256)
        q == x * (y % 256)
        t == (p % 256) * 256 + q
    IN  <<(p \div 256) + (t \div Limb), t % Limb>>

\* a * b on u32: the wrapped product and whether it overflowed
MulU(a, b) ==
    LET low == Mul16(a[2], b[2])
        c1 == Mul16(a[1], b[2])
        c2 == Mul16(a[2], b[1])
        hi == low[1] + c1[2] + c2[2]
    IN  [v |-> <<hi % Limb, low[2]>>,
         ovf |-> (a[1] # 0 /\ b[1] # 0) \/ c1[1] # 0 \/ c2[1] # 0 \/ hi >= Limb]

\* a.wrapping_mul(b)
WrappingMul(a, b) == MulU(a, b).v

\* 3u32.pow(e): the wrapped power and whether it overflowed
RECURSIVE Pow3(_)
Pow3(e) ==
    IF e < 20 THEN [v |-> U32(3^e), ovf |-> FALSE]
    ELSE LET p == Pow3(e - 1)
             m == Mul3(p.v)
         IN  [v |-> m.v, ovf |-> p.ovf \/ m.ovf]

\* a / b and a % b on u32 (b # 0).  A divisor of 2^31 or more leaves a
\* quotient of 0 or 1; a dividend of 2^31 or more is halved, divided and
\* the dropped bit is brought back; everything else is native.
Nat32(a) == a[1] * Limb + a[2]

DivRem(a, b) ==
    IF b[1] >= Half
    THEN IF LtU(a, b) THEN [q |-> Zero, r |-> a] ELSE [q |-> One, r |-> SubU(a, b)]
    ELSE IF a[1] < Half
    THEN [q |-> U32(Nat32(a) \div Nat32(b)), r |-> U32(Nat32(a) % Nat32(b))]
    ELSE LET d == Nat32(b)
             ah == a[1] * Half + (a[2] \div 2)
             a0 == a[2] % 2
             q1 == ah \div d
             r1 == ah % d
             up == r1 + a0 >= d - r1
             bit == IF up THEN 1 ELSE 0
         IN  [q |-> <<q1 \div Half, (q1 % Half) * 2 + bit>>,
              r |-> IF up THEN U32(r1 - (d - r1 - a0)) ELSE U32(2 * r1 + a0)]

DivU(a, b) == DivRem(a, b).q
RemU(a, b) == DivRem(a, b).r

Three == U32(3)

\* ------------------------------------------------------------------------
\* Cell
\* ------------------------------------------------------------------------
Cell == {"None", "X", "O"}

\* Cell::from_digit
from_digit(digit) == CASE digit = 0 -> "None" [] digit = 1 -> "X" [] digit = 2 -> "O"

\* the `match cell { None => 0, X => 1, O => 2 }` of set and from_iter
CellDigit(cell) == CASE cell = "None" -> 0 [] cell = "X" -> 1 [] cell = "O" -> 2

\* ------------------------------------------------------------------------
\* Ring { int: u32, cells: u8 }
\* Every operation takes dbg (overflow checks and debug assertions are
\* compiled in) and returns its value together with whether it panicked.
\* ------------------------------------------------------------------------
\* Ring::new
new(cells) == [int |-> Zero, cells |-> cells]

\* Ring::len
len(r) == r.cells

\* Ring::get
get(r, i) ==
    LET ix == i % r.cells
        p == Pow3(r.cells - ix - 1)
    IN  from_digit(RemU(DivU(r.int, p.v), Three)[2])

\* Ring::set
set(r, i, cell, dbg) ==
    LET ix == i % r.cells
        mp == Pow3(r.cells - ix - 1)
        multiplier == mp.v
        digit == RemU(DivU(r.int, multiplier), Three)[2]
        new_digit == CellDigit(cell)
        diff == new_digit - digit
        \* `multiplier as i32`: sign and magnitude of the reinterpreted value
        mneg == multiplier[1] >= Half
        mag == IF mneg THEN SubU(Zero, multiplier) ELSE multiplier
        absd == IF diff < 0 THEN 0 - diff ELSE diff
        \* |diff * multiplier as i32|, diff in -2..2
        prod == CASE absd = 0 -> [v |-> Zero, ovf |-> FALSE]
                  [] absd = 1 -> [v |-> mag, ovf |-> FALSE]
                  [] absd = 2 -> AddU(mag, mag)
        neg == (diff < 0) # mneg
        \* the i32 product leaves -2^31 .. 2^31-1
        i32ovf == absd # 0 /\ (prod.ovf \/ (IF neg THEN LtU(<<Half, 0>>, prod.v)
                                                    ELSE ~LtU(prod.v, <<Half, 0>>)))
        \* `(...) as u32` of the wrapped product
        bits == IF neg THEN SubU(Zero, prod.v) ELSE prod.v
    IN  [panic |-> dbg /\ (mp.ovf \/ i32ovf),
         ring |-> [int |-> AddU(r.int, bits).v, cells |-> r.cells]]

\* F applied to the value of v: v is evaluated first, once
Bind(v, F(_)) == CHOOSE y \in {F(w) : w \in {v}} : TRUE

\* one turn of the loop of from_iter: `cells += 1; int *= 3; int += digit`
FromIterStep(acc, cell) ==
    LET m == Mul3(acc.int)
        a == AddU(m.v, U32(CellDigit(cell)))
    IN  [int |-> a.v, cells |-> acc.cells + 1, ovf |-> acc.ovf \/ m.ovf \/ a.ovf]

\* the loop of from_iter over iter[lo..hi], split in halves; the left half is
\* evaluated before the right one starts from it
RECURSIVE FromIterFold(_, _, _, _)
FromIterFold(iter, lo, hi, acc) ==
    IF lo > hi THEN acc
    ELSE IF lo = hi THEN FromIterStep(acc, iter[lo])
    ELSE LET mid == (lo + hi) \div 2
         IN  Bind(FromIterFold(iter, lo, mid, acc),
                  LAMBDA left : FromIterFold(iter, mid + 1, hi, left))

\* impl FromIterator<Cell> for Ring
from_iter(iter, dbg) ==
    LET acc == FromIterFold(iter, 1, Len(iter), [int |-> Zero, cells |-> 0, ovf |-> FALSE])
    IN  [panic |-> dbg /\ (acc.ovf \/ ~(acc.cells <= MaxCells)),
         ring |-> [int |-> acc.int, cells |-> acc.cells]]

\* impl IntoIterator for Ring: Cells { int, denom }
into_iter(r) ==
    LET p == Pow3(r.cells - 1)
    IN  [int |-> r.int, denom |-> p.v, ovf |-> p.ovf]

\* Iterator::next for Cells: the item (if any) and the iterator afterwards
next(it) ==
    IF it.denom = Zero THEN [items |-> <<>>, it |-> it]
    ELSE [items |-> <<from_digit(RemU(DivU(it.int, it.denom), Three)[2])>>,
          it |-> [int |-> RemU(it.int, it.denom), denom |-> DivU(it.denom, Three),
                  ovf |-> it.ovf]]

\* DoubleEndedIterator::next_back for Cells
next_back(it) ==
    IF it.denom = Zero THEN [items |-> <<>>, it |-> it]
    ELSE [items |-> <<from_digit(RemU(it.int, Three)[2])>>,
          it |-> [int |-> DivU(it.int, Three), denom |-> DivU(it.denom, Three),
                  ovf |-> it.ovf]]

\* A u32 denom is 0 after at most this many divisions by 3 (3^21 > 2^32), so
\* no Cells iterator yields more items.
MaxItems == MaxCells + 1

\* k calls of next
RECURSIVE NextN(_, _)
NextN(it, k) ==
    IF k = 0 THEN [items |-> <<>>, it |-> it]
    ELSE IF k = 1 THEN next(it)
    ELSE Bind(NextN(it, k \div 2), LAMBDA a :
         Bind(NextN(a.it, k - (k \div 2)), LAMBDA b :
              [items |-> a.items \o b.items, it |-> b.it]))

\* k calls of next_back
RECURSIVE NextBackN(_, _)
NextBackN(it, k) ==
    IF k = 0 THEN [items |-> <<>>, it |-> it]
    ELSE IF k = 1 THEN next_back(it)
    ELSE Bind(NextBackN(it, k \div 2), LAMBDA a :
         Bind(NextBackN(a.it, k - (k \div 2)), LAMBDA b :
              [items |-> a.items \o b.items, it |-> b.it]))

\* the cells an iterator yields until next returns None
Collect(it) == NextN(it, MaxItems).items

\* .rev(): the cells yielded by next_back until it returns None
CollectRev(it) == NextBackN(it, MaxItems).items

\* Cycle::next: restart from a clone of orig when the inner iterator is exhausted
CycleNext(orig, it) == next(IF it.denom = Zero THEN orig ELSE it)

\* k calls of Cycle::next
RECURSIVE CycleNextN(_, _, _)
CycleNextN(orig, it, k) ==
    IF k = 0 THEN [items |-> <<>>, it |-> it]
    ELSE IF k = 1 THEN CycleNext(orig, it)
    ELSE Bind(CycleNextN(orig, it, k \div 2), LAMBDA a :
         Bind(CycleNextN(orig, a.it, k - (k \div 2)), LAMBDA b :
              [items |-> a.items \o b.items, it |-> b.it]))

\* .cycle().take(m).collect()
CycleTake(orig, m) == CycleNextN(orig, orig, m).items

\* reverse without the `.rev()`: the cells are collected front to back
reverse_NoRev(r, dbg) ==
    LET it == into_iter(r)
        out == from_iter(Collect(it), dbg)
    IN  [panic |-> (dbg /\ it.ovf) \/ out.panic, ring |-> out.ring]

\* Ring::reverse
reverse(r, dbg) ==
    LET it == into_iter(r)
        out == from_iter(CollectRev(it), dbg)
    IN  [panic |-> (dbg /\ it.ovf) \/ out.panic, ring |-> out.ring]

\* impl Shl<u8> for Ring
shl(r, k, dbg) ==
    LET rhs == k % r.cells
        p1 == Pow3(rhs)
        p2 == Pow3(r.cells)
        truncated == RemU(WrappingMul(r.int, p1.v), p2.v)
        p3 == Pow3(r.cells - rhs)
        wrapped == DivU(r.int, p3.v)
        sum == AddU(truncated, wrapped)
    IN  [panic |-> dbg /\ (p1.ovf \/ p2.ovf \/ p3.ovf \/ sum.ovf),
         ring |-> [int |-> sum.v, cells |-> r.cells]]

\* impl Shr<u8> for Ring
shr(r, k, dbg) ==
    LET rhs == k % r.cells
        p1 == Pow3(rhs)
        p2 == Pow3(r.cells - rhs)
        wrapped == MulU(RemU(r.int, p1.v), p2.v)
        truncated == DivU(r.int, p1.v)
        sum == AddU(truncated, wrapped.v)
    IN  [panic |-> dbg /\ (p1.ovf \/ p2.ovf \/ wrapped.ovf \/ sum.ovf),
         ring |-> [int |-> sum.v, cells |-> r.cells]]

\* the j-th item (from 1) of
\* `(0..self.cells).map(|n| self << n).flat_map(|ring| [ring, ring.reverse()])`
Candidate(r, j, dbg) ==
    LET shifted == shl(r, (j - 1) \div 2, dbg)
        mirrored == reverse(shifted.ring, dbg)
    IN  IF j % 2 = 1 THEN shifted
        ELSE [panic |-> shifted.panic \/ mirrored.panic, ring |-> mirrored.ring]

\* `.max_by_key(|ring| ring.int)` over items lo..hi: the last of the greatest
RECURSIVE MaxByKey(_, _, _, _)
MaxByKey(r, lo, hi, dbg) ==
    IF lo = hi THEN Candidate(r, lo, dbg)
    ELSE LET mid == (lo + hi) \div 2
         IN  Bind(MaxByKey(r, lo, mid, dbg), LAMBDA a :
             Bind(MaxByKey(r, mid + 1, hi, dbg), LAMBDA b :
                  [panic |-> a.panic \/ b.panic,
                   ring |-> IF LtU(b.ring.int, a.ring.int) THEN a.ring ELSE b.ring]))

\* Ring::canonicalise
canonicalise(r, dbg) == MaxByKey(r, 1, 2 * r.cells, dbg)

\* impl PartialEq for Ring
eq(a, b, dbg) ==
    LET ca == canonicalise(a, dbg)
        cb == canonicalise(b, dbg)
    IN  [panic |-> ca.panic \/ cb.panic, val |-> ca.ring.int = cb.ring.int]

\* ------------------------------------------------------------------------
\* Board { center: Cell, ring: Ring } and Win
\* ------------------------------------------------------------------------
\* Board::new
board_new(cells) == [center |-> "None", ring |-> new(cells)]

\* .windows(3): every run of three consecutive items
Windows3(v) == [i \in 1..(IF Len(v) >= 3 THEN Len(v) - 2 ELSE 0) |-> SubSeq(v, i, i + 2)]

\* TakeLen without the two wrapped cells: the windows over the end are lost
TakeLen_NoWrap(r) == len(r)

\* `.take((self.ring.len() + 2).into())`: the first two cells are put on the
\* end as well
TakeLen(r) == len(r) + 2

\* the wrapped copy of the ring that winner and wins scan
Wrapped(r) == CycleTake(into_iter(r), TakeLen(r))

\* `.zip(self.ring.into_iter().skip((self.ring.cells / 2).into()))`
Opposites(r) ==
    LET a == Collect(into_iter(r))
        b == SubSeq(a, (r.cells \div 2) + 1, Len(a))
    IN  [i \in 1..(IF Len(a) < Len(b) THEN Len(a) ELSE Len(b)) |-> <<a[i], b[i]>>]

\* winner with the O branch of the ring scan returning X
winner_WrongMark(b, dbg) ==
    LET w == Windows3(Wrapped(b.ring))
        hits == {i \in 1..Len(w) : w[i] = <<"X", "X", "X">> \/ w[i] = <<"O", "O", "O">>}
        pairs == Opposites(b.ring)
        ovf == dbg /\ into_iter(b.ring).ovf
    IN  IF hits # {} THEN [panic |-> ovf, cell |-> "X"]
        ELSE IF b.center = "None" THEN [panic |-> ovf, cell |-> "None"]
        ELSE IF dbg /\ b.ring.cells % 2 # 0 THEN [panic |-> TRUE, cell |-> "None"]
        ELSE IF \E i \in 1..Len(pairs) : pairs[i][1] = b.center /\ pairs[i][2] = b.center
        THEN [panic |-> ovf, cell |-> b.center]
        ELSE [panic |-> ovf, cell |-> "None"]

\* Board::winner
winner(b, dbg) ==
    LET w == Windows3(Wrapped(b.ring))
        hits == {i \in 1..Len(w) : w[i] = <<"X", "X", "X">> \/ w[i] = <<"O", "O", "O">>}
        first == CHOOSE i \in hits : \A j \in hits : i <= j
        pairs == Opposites(b.ring)
        ovf == dbg /\ into_iter(b.ring).ovf
    IN  IF hits # {} THEN [panic |-> ovf, cell |-> w[first][1]]
        ELSE IF b.center = "None" THEN [panic |-> ovf, cell |-> "None"]
        ELSE IF dbg /\ b.ring.cells % 2 # 0 THEN [panic |-> TRUE, cell |-> "None"]
        ELSE IF \E i \in 1..Len(pairs) : pairs[i][1] = b.center /\ pairs[i][2] = b.center
        THEN [panic |-> ovf, cell |-> b.center]
        ELSE [panic |-> ovf, cell |-> "None"]

\* Board::wins
wins(b, dbg) ==
    LET w == Windows3(Wrapped(b.ring))
        RingHit(i) == w[i] = <<"X", "X", "X">> \/ w[i] = <<"O", "O", "O">>
        ringWins == [j \in 1..Len(SelectSeq([i \in 1..Len(w) |-> i], RingHit)) |->
                        [kind |-> "Ring",
                         index |-> SelectSeq([i \in 1..Len(w) |-> i], RingHit)[j] - 1]]
        pairs == Opposites(b.ring)
        CenterHit(i) == pairs[i][1] = b.center /\ pairs[i][2] = b.center
        centerWins == IF b.center = "None" THEN <<>>
                      ELSE [j \in 1..Len(SelectSeq([i \in 1..Len(pairs) |-> i], CenterHit)) |->
                              [kind |-> "Center",
                               index |-> SelectSeq([i \in 1..Len(pairs) |-> i], CenterHit)[j] - 1]]
    IN  IF dbg /\ b.ring.cells % 2 # 0 THEN [panic |-> TRUE, out |-> <<>>]
        ELSE [panic |-> dbg /\ into_iter(b.ring).ovf, out |-> ringWins \o centerWins]

\* ------------------------------------------------------------------------
\* State
\* ------------------------------------------------------------------------
VARIABLES
    build,      \* "debug": overflow checks and debug_assert! compiled in; "release": not
    status,     \* "start" before construction, "ok", or "panicked"
    ring,       \* the Ring (board.ring)
    center,     \* board.center
    last,       \* the last call: operation, arguments, result
    ops,        \* number of operations applied since construction
    turn,       \* main: the mark the next click places
    last_mouse_angle,   \* main: "Some" while the ring is grabbed, else "None"
    mouse_movement      \* main: "below" MOVEMENT_THRESHOLD, or "reached"

vars == <<build, status, ring, center, last, ops, turn, last_mouse_angle, mouse_movement>>

dbgOn == build = "debug"

NoRing == [int |-> Zero, cells |-> 0]

Call(op, i, cell, arg, other, res, val, out, panic) ==
    [op |-> op, i |-> i, cell |-> cell, arg |-> arg, other |-> other, res |-> res,
     val |-> val, out |-> out, panic |-> panic]

NoCall == Call("none", 0, "None", NoRing, NoRing, NoRing, FALSE, <<>>, FALSE)

\* ------------------------------------------------------------------------
\* Inputs
\* ------------------------------------------------------------------------
\* every cell sequence of length 1..MaxSeqLen
SmallSeqs == UNION {[1..n -> Cell] : n \in 1..MaxSeqLen}

\* the first n cells of pattern p repeated
Repeat(p, n) == [i \in 1..n |-> p[((i - 1) % Len(p)) + 1]]

Patterns == {<<"O">>, <<"None", "X", "O">>, <<"O", "None", "None">>}

\* lengths of the patterned sequences: the shortest length at which 3^(2n-1) leaves 32 bits, the longest supported one and one more
SeedLens == {11, MaxCells, MaxCells + 1}

Seeds == SmallSeqs \cup {Repeat(p, n) : p \in Patterns, n \in SeedLens}

\* lengths handed to Ring::new: short ones, the test length, the longest
\* supported one and one more
NewLens == {1, 2, 3, 4, 8, MaxCells, MaxCells + 1}

\* u8 indices tried against a ring of n cells: first, second, wrapped first, largest
SetArgs(n) == {0, 1, n, U8Max}

\* u8 shift amounts tried against a ring of n cells
ShiftArgs(n) == {1, n - 1, n, U8Max}

\* right-hand sides of ==
EqOthers == {new(1), new(2), from_iter(<<"X", "None">>, FALSE).ring}

\* ------------------------------------------------------------------------
\* Spec: a Ring is constructed and up to MaxOps operations are applied to it
\* ------------------------------------------------------------------------
Init ==
    /\ build \in {"debug", "release"}
    /\ status = "start"
    /\ ring = NoRing
    /\ center = "None"
    /\ last = NoCall
    /\ ops = 0
    /\ turn = "X"
    /\ last_mouse_angle = "None"
    /\ mouse_movement = "below"

\* let r = Ring::new(n)
RingNew(n) ==
    /\ status = "start"
    /\ status' = "ok"
    /\ ring' = new(n)
    /\ last' = Call("new", n, "None", NoRing, NoRing, new(n), FALSE, <<>>, FALSE)
    /\ UNCHANGED <<build, center, ops, turn, last_mouse_angle, mouse_movement>>

\* let r: Ring = iter.collect()
RingFromIter(iter) ==
    LET res == from_iter(iter, dbgOn)
    IN  /\ status = "start"
        /\ status' = IF res.panic THEN "panicked" ELSE "ok"
        /\ ring' = IF res.panic THEN ring ELSE res.ring
        /\ last' = Call("from_iter", Len(iter), "None", NoRing, NoRing, res.ring, FALSE,
                        <<>>, res.panic)
        /\ UNCHANGED <<build, center, ops, turn, last_mouse_angle, mouse_movement>>

\* the ring is replaced by the result of an operation, or the process panics
Apply(op, i, cell, res) ==
    /\ status' = IF res.panic THEN "panicked" ELSE "ok"
    /\ ring' = IF res.panic THEN ring ELSE res.ring
    /\ last' = Call(op, i, cell, ring, NoRing, res.ring, FALSE, <<>>, res.panic)
    /\ ops' = ops + 1
    /\ UNCHANGED <<build, center, turn, last_mouse_angle, mouse_movement>>

\* r.set(i, cell)
RingSet(i, cell) ==
    /\ status = "ok" /\ ops < MaxOps
    /\ Apply("set", i, cell, set(ring, i, cell, dbgOn))

\* r = r << k
RingShl(k) ==
    /\ status = "ok" /\ ops < MaxOps
    /\ Apply("shl", k, "None", shl(ring, k, dbgOn))

\* r = r >> k
RingShr(k) ==
    /\ status = "ok" /\ ops < MaxOps
    /\ Apply("shr", k, "None", shr(ring, k, dbgOn))

\* r = r.reverse()
RingReverse ==
    /\ status = "ok" /\ ops < MaxOps
    /\ Apply("reverse", 0, "None", reverse(ring, dbgOn))

\* r = r.canonicalise()
RingCanonicalise ==
    /\ status = "ok" /\ ops < MaxOps
    /\ Apply("canonicalise", 0, "None", canonicalise(ring, dbgOn))

\* r == other
RingEq(other) ==
    LET res == eq(ring, other, dbgOn)
    IN  /\ status = "ok" /\ ops < MaxOps
        /\ status' = IF res.panic THEN "panicked" ELSE "ok"
        /\ last' = Call("eq", 0, "None", ring, other, ring, res.val, <<>>, res.panic)
        /\ ops' = ops + 1
        /\ UNCHANGED <<build, ring, center, turn, last_mouse_angle, mouse_movement>>

Next ==
    \/ \E n \in NewLens : RingNew(n)
    \/ \E iter \in Seeds : RingFromIter(iter)
    \/ \E i \in SetArgs(ring.cells), cell \in Cell : RingSet(i, cell)
    \/ \E k \in ShiftArgs(ring.cells) : RingShl(k)
    \/ \E k \in ShiftArgs(ring.cells) : RingShr(k)
    \/ RingReverse
    \/ RingCanonicalise
    \/ \E other \in EqOthers : RingEq(other)

Spec == Init /\ [][Next]_vars

\* ------------------------------------------------------------------------
\* SpecReverse: rings are built cell by cell (constructors and set) and
\* reflected
\* ------------------------------------------------------------------------
NextReverse ==
    \/ \E n \in NewLens : RingNew(n)
    \/ \E iter \in Seeds : RingFromIter(iter)
    \/ \E i \in SetArgs(ring.cells), cell \in Cell : RingSet(i, cell)
    \/ RingReverse

SpecReverse == Init /\ [][NextReverse]_vars

\* ------------------------------------------------------------------------
\* SpecBoard: a Board is built, its cells are written and it is queried
\* ------------------------------------------------------------------------
board == [center |-> center, ring |-> ring]

\* the helper `ring(str)` of the tests: Ring { cells: str.len(), int: from_str_radix(str, 3) }
TestRing(digits) ==
    LET acc == FromIterFold([i \in 1..Len(digits) |-> from_digit(digits[i])], 1, Len(digits),
                            [int |-> Zero, cells |-> 0, ovf |-> FALSE])
    IN  [int |-> acc.int, cells |-> Len(digits)]

\* the boards of the test `winner`
TestBoards ==
    {[center |-> "None", ring |-> TestRing(<<0, 0, 1, 1, 1, 0, 2, 0>>)],
     [center |-> "None", ring |-> TestRing(<<0, 0, 2, 2, 2, 0, 1, 0>>)],
     [center |-> "None", ring |-> TestRing(<<1, 0, 2, 2, 1, 2, 1, 1>>)],
     [center |-> "None", ring |-> TestRing(<<2, 2, 0, 1, 2, 1, 0, 2>>)],
     [center |-> "X", ring |-> TestRing(<<1, 1, 2, 0, 1, 2, 0, 2>>)],
     [center |-> "O", ring |-> TestRing(<<2, 1, 0, 1, 2, 1, 0, 2>>)]}

\* boards of the longest supported ring
LongBoards ==
    {[center |-> c, ring |-> from_iter(Repeat(p, MaxCells), FALSE).ring] :
        c \in Cell, p \in Patterns \cup {<<"X", "X", "X", "None", "O">>, <<"O", "O", "X">>}}

\* let board = Board::new(n)
BoardNew(n) ==
    /\ status = "start"
    /\ status' = "ok"
    /\ ring' = board_new(n).ring
    /\ center' = board_new(n).center
    /\ last' = NoCall
    /\ UNCHANGED <<build, ops, turn, last_mouse_angle, mouse_movement>>

\* let board = Board { center, ring }
BoardLiteral(b) ==
    /\ status = "start"
    /\ status' = "ok"
    /\ ring' = b.ring
    /\ center' = b.center
    /\ last' = NoCall
    /\ UNCHANGED <<build, ops, turn, last_mouse_angle, mouse_movement>>

\* board.ring.set(i, cell)
BoardSetCell(i, cell) ==
    LET res == set(ring, i, cell, dbgOn)
    IN  /\ status = "ok"
        /\ ring.cells <= MaxBoardCells
        /\ status' = IF res.panic THEN "panicked" ELSE "ok"
        /\ ring' = IF res.panic THEN ring ELSE res.ring
        /\ last' = NoCall
        /\ UNCHANGED <<build, center, ops, turn, last_mouse_angle, mouse_movement>>

\* board.center = cell
BoardSetCenter(cell) ==
    /\ status = "ok"
    /\ center' = cell
    /\ last' = NoCall
    /\ UNCHANGED <<build, status, ring, ops, turn, last_mouse_angle, mouse_movement>>

\* board.winner()
BoardWinner ==
    LET res == winner(board, dbgOn)
    IN  /\ status = "ok"
        /\ status' = IF res.panic THEN "panicked" ELSE "ok"
        /\ last' = Call("winner", 0, res.cell, ring, NoRing, ring, FALSE, <<>>, res.panic)
        /\ UNCHANGED <<build, ring, center, ops, turn, last_mouse_angle, mouse_movement>>

\* board.wins()
BoardWins ==
    LET res == wins(board, dbgOn)
    IN  /\ status = "ok"
        /\ status' = IF res.panic THEN "panicked" ELSE "ok"
        /\ last' = Call("wins", 0, "None", ring, NoRing, ring, FALSE, res.out, res.panic)
        /\ UNCHANGED <<build, ring, center, ops, turn, last_mouse_angle, mouse_movement>>

NextBoard ==
    \/ \E n \in 1..MaxBoardCells : BoardNew(n)
    \/ \E b \in TestBoards \cup LongBoards : BoardLiteral(b)
    \/ \E i \in 0..(ring.cells - 1), cell \in Cell : BoardSetCell(i, cell)
    \/ \E cell \in Cell : BoardSetCenter(cell)
    \/ BoardWinner
    \/ BoardWins

SpecBoard == Init /\ [][NextBoard]_vars

\* ------------------------------------------------------------------------
\* SpecGame: the game loop of main, one Frame per loop iteration
\* ------------------------------------------------------------------------
\* Board::new(8)
GameCells == 8

\* let mut board = Board::new(8)
GameStart ==
    /\ status = "start"
    /\ status' = "ok"
    /\ ring' = board_new(GameCells).ring
    /\ center' = board_new(GameCells).center
    /\ UNCHANGED <<build, last, ops, turn, last_mouse_angle, mouse_movement>>

\* turn = match turn { X => O, O => X, None => unreachable!() }
OtherTurn(t) == CASE t = "X" -> "O" [] t = "O" -> "X"

\* `board.winner() == Glyph::None` fails: no click is taken any more
Halted_Never(w) == FALSE

Halted(w) == w.cell # "None"

\* `board.ring.get(i) == Glyph::None` without the comparison
CellFree_Always(i) == TRUE

\* `board.ring.get(i) == Glyph::None`
CellFree(i) == get(ring, i) = "None"

\* the indices `round(angle / TAU * len) as u8` can give for an angle in 0..TAU
ClickIndices == 0..len(ring)

\* a click on the ring at index i: the body of `if board.ring.get(i) == Glyph::None`
RingClick(i) ==
    LET res == set(ring, i, turn, dbgOn)
    IN  IF CellFree(i)
        THEN /\ status' = IF res.panic THEN "panicked" ELSE "ok"
             /\ ring' = IF res.panic THEN ring ELSE res.ring
             /\ turn' = IF res.panic THEN turn ELSE OtherTurn(turn)
        ELSE UNCHANGED <<status, ring, turn>>

\* a click released off the ring: only a click inside an empty center counts
CenterClick(inCenter) ==
    IF inCenter /\ center = "None"
    THEN /\ center' = turn
         /\ turn' = OtherTurn(turn)
    ELSE UNCHANGED <<center, turn>>

\* one iteration of the loop; the frame's input is whether the button was
\* pressed or released, whether the pointer moved past the threshold, where
\* the pointer is and the ring index under it
Frame ==
    LET w == winner(board, dbgOn)
    IN  /\ status = "ok"
        /\ UNCHANGED <<build, last, ops>>
        /\ \E pressed, released, far \in BOOLEAN :
              LET moved == IF far THEN "reached" ELSE mouse_movement
              IN  IF last_mouse_angle = "Some"
                  THEN IF released
                       THEN /\ last_mouse_angle' = "None"
                            /\ UNCHANGED center
                            /\ IF mouse_movement = "below" /\ w.panic
                               THEN /\ status' = "panicked"
                                    /\ UNCHANGED <<ring, turn, mouse_movement>>
                               ELSE IF mouse_movement = "below" /\ ~Halted(w)
                               THEN /\ \E i \in ClickIndices : RingClick(i)
                                    /\ mouse_movement' = moved
                               ELSE /\ mouse_movement' = moved
                                    /\ UNCHANGED <<status, ring, turn>>
                       ELSE /\ mouse_movement' = moved
                            /\ UNCHANGED <<status, ring, center, turn, last_mouse_angle>>
                  ELSE IF pressed
                  THEN /\ mouse_movement' = "below"
                       /\ \E inRing \in BOOLEAN :
                             last_mouse_angle' = IF inRing THEN "Some" ELSE "None"
                       /\ UNCHANGED <<status, ring, center, turn>>
                  ELSE IF released
                  THEN /\ UNCHANGED <<ring, last_mouse_angle>>
                       /\ IF mouse_movement = "below" /\ w.panic
                          THEN /\ status' = "panicked"
                               /\ UNCHANGED <<center, turn, mouse_movement>>
                          ELSE IF mouse_movement = "below" /\ ~Halted(w)
                          THEN /\ \E inCenter \in BOOLEAN : CenterClick(inCenter)
                               /\ mouse_movement' = moved
                               /\ UNCHANGED status
                          ELSE /\ mouse_movement' = moved
                               /\ UNCHANGED <<status, center, turn>>
                  ELSE /\ mouse_movement' = moved
                       /\ UNCHANGED <<status, ring, center, turn, last_mouse_angle>>

NextGame ==
    \/ GameStart
    \/ Frame

SpecGame == Init /\ [][NextGame]_vars

\* ------------------------------------------------------------------------
\* Properties
\* ------------------------------------------------------------------------
\* a ring of a supported length
Supported(r) == r.cells \in 1..MaxCells

\* packed < 3^length
Valid(r) == LtU(r.int, Pow3(r.cells).v)

\* the cell sequence of a ring, cell 0 first
CellsOf(r) == [i \in 1..r.cells |-> get(r, i - 1)]

\* a cell sequence rotated left by k, and mirrored
Rot(cs, k) == [i \in 1..Len(cs) |-> cs[((i - 1 + k) % Len(cs)) + 1]]
Rev(cs) == [i \in 1..Len(cs) |-> cs[Len(cs) + 1 - i]]

\* the 2n rotations and reflected rotations of a ring's cell sequence
Orbit(r) ==
    {Rot(CellsOf(r), k) : k \in 0..(r.cells - 1)}
        \cup {Rot(Rev(CellsOf(r)), k) : k \in 0..(r.cells - 1)}

\* the packed value of a cell sequence, most significant digit first
Pack(cs) == from_iter(cs, FALSE).ring.int

MutatingOps == {"set", "shl", "shr", "reverse", "canonicalise"}

\* C1: for a ring r of length n in 1..20 with packed < 3^n and any k, r << k
\* has length n and its cell i is r's cell (i + k) mod n.
C1_RotateLeftIsCyclicShift ==
    (last.op = "shl" /\ Supported(last.arg) /\ Valid(last.arg)) =>
        /\ ~last.panic
        /\ last.res.cells = last.arg.cells
        /\ \A i \in 0..(last.arg.cells - 1) :
              get(last.res, i) = get(last.arg, (i + last.i) % last.arg.cells)

\* C2: rotating right by k and then left by the same k gives back exactly the
\* packed integer and length the ring had before.
C2_RotationRoundTrip ==
    [][(/\ last.op = "shr" /\ ~last.panic /\ Supported(last.arg)
        /\ last'.op = "shl" /\ last'.i = last.i)
       => (~last'.panic /\ last'.res = last.arg)]_vars

\* C3: a == b holds exactly when b's cell sequence is a rotation, or a
\* reflected rotation, of a's; rings of different lengths are never equal.
C3_EqIsOrbitMembership ==
    (last.op = "eq" /\ Supported(last.arg) /\ Supported(last.other)) =>
        /\ ~last.panic
        /\ last.val <=> (/\ last.arg.cells = last.other.cells
                         /\ CellsOf(last.other) \in Orbit(last.arg))

\* C4: canonicalise(r) is the greatest packed value among the 2n rotations and
\* reflected rotations of r, and is the same for r << k and for reverse(r).
C4_CanonicalInvariance ==
    (last.op = "canonicalise" /\ Supported(last.arg)) =>
        /\ ~last.panic
        /\ \E cs \in Orbit(last.arg) :
              /\ last.res.int = Pack(cs)
              /\ \A ds \in Orbit(last.arg) : ~LtU(Pack(cs), Pack(ds))
        /\ \A k \in ShiftArgs(last.arg.cells) :
              canonicalise(shl(last.arg, k, FALSE).ring, FALSE).ring.int = last.res.int
        /\ canonicalise(reverse(last.arg, FALSE).ring, FALSE).ring.int = last.res.int

\* C5: set(i, c) completes; afterwards cell i mod n is c, every other cell is
\* what it was and the length is unchanged.
C5_SetReplacesOneDigit ==
    (last.op = "set" /\ Supported(last.arg)) =>
        /\ ~last.panic
        /\ last.res.cells = last.arg.cells
        /\ \A j \in 0..(last.arg.cells - 1) :
              get(last.res, j) = IF j = last.i % last.arg.cells THEN last.cell
                                 ELSE get(last.arg, j)

\* C6: every ring reached from a construction of 1..20 cells by set, <<, >>,
\* reverse and canonicalise has packed < 3^length and keeps its length.
C6_PackedBelowPowerOfThree ==
    (status # "start" /\ Supported(ring)) =>
        /\ Valid(ring)
        /\ last.op \in MutatingOps => last.res.cells = last.arg.cells

\* C7: constructing a ring of more than 20 cells ends in a failure, never in
\* a usable ring.
C7_OversizeConstructionFails ==
    (last.op \in {"new", "from_iter"} /\ last.i > MaxCells) => status = "panicked"

\* the winning lines as C8 lists them, read cell by cell with get
RingLine(b, i) ==
    /\ get(b.ring, i) # "None"
    /\ get(b.ring, i + 1) = get(b.ring, i)
    /\ get(b.ring, i + 2) = get(b.ring, i)

CenterLine(b, i) ==
    /\ b.center # "None"
    /\ get(b.ring, i) = b.center
    /\ get(b.ring, i + (b.ring.cells \div 2)) = b.center

ExpectedWins(b) ==
    LET n == b.ring.cells
        IsRing(i) == RingLine(b, i)
        IsCenter(i) == CenterLine(b, i)
        rs == SelectSeq([i \in 1..n |-> i - 1], IsRing)
        cs == SelectSeq([i \in 1..(n \div 2) |-> i - 1], IsCenter)
    IN  [j \in 1..Len(rs) |-> [kind |-> "Ring", index |-> rs[j]]]
            \o [j \in 1..Len(cs) |-> [kind |-> "Center", index |-> cs[j]]]

\* C8: on a board of even ring length wins() returns exactly the ring lines in
\* ascending start index followed by the center lines in ascending index.
C8_WinsCompleteInOrder ==
    (last.op = "wins" /\ Supported(ring) /\ ring.cells % 2 = 0) =>
        /\ ~last.panic
        /\ last.out = ExpectedWins(board)

\* C8 witness: wins() reported a ring line over the wrap-around point and a
\* center line.
C8_Witness ==
    /\ last.op = "wins" /\ Supported(ring) /\ ring.cells % 2 = 0 /\ ~last.panic
    /\ \E j, k \in 1..Len(last.out) :
          /\ last.out[j].kind = "Ring" /\ last.out[j].index = ring.cells - 1
          /\ last.out[k].kind = "Center"

\* the mark on the cells of a winning line
LineMark(b, win) == IF win.kind = "Ring" THEN get(b.ring, win.index) ELSE b.center

\* C9: on a board of even ring length winner() is empty exactly when wins() is
\* empty, and otherwise is the mark on the first line wins() lists.
C9_WinnerAgreesWithWins ==
    (last.op = "winner" /\ Supported(ring) /\ ring.cells % 2 = 0) =>
        LET w == wins(board, dbgOn)
        IN  /\ ~last.panic /\ ~w.panic
            /\ last.cell = "None" <=> w.out = <<>>
            /\ w.out # <<>> => last.cell = LineMark(board, w.out[1])

\* C9 witness: winner() returned O for a board whose first line is a ring line
\* of O.
C9_Witness ==
    /\ last.op = "winner" /\ Supported(ring) /\ ring.cells % 2 = 0 /\ ~last.panic
    /\ last.cell = "O"
    /\ wins(board, dbgOn).out # <<>>
    /\ wins(board, dbgOn).out[1].kind = "Ring"

\* C10: for a ring r of length n in 1..20 (a packed value below 3^n),
\* reverse(r) has r's length, its cell i is r's cell n-1-i, and reversing it
\* again gives back exactly r's packed value.
C10_ReverseIsInvolution ==
    (last.op = "reverse" /\ Supported(last.arg) /\ Valid(last.arg)) =>
        /\ ~last.panic
        /\ last.res.cells = last.arg.cells
        /\ \A i \in 0..(last.arg.cells - 1) :
              get(last.res, i) = get(last.arg, last.arg.cells - 1 - i)
        /\ reverse(last.res, FALSE).ring.int = last.arg.int

\* C10 witness: a ring of more than ten cells with an empty cell at one end
\* and a mark at the other was reflected into a different ring.
C10_Witness ==
    /\ last.op = "reverse" /\ Supported(last.arg) /\ Valid(last.arg) /\ ~last.panic
    /\ last.arg.cells > 10
    /\ get(last.arg, 0) = "None"
    /\ get(last.arg, last.arg.cells - 1) # "None"
    /\ last.res.int # last.arg.int

\* the number of ring cells holding mark m
MarkCount(r, m) == Cardinality({i \in 0..(r.cells - 1) : get(r, i) = m})

\* C11: in the game loop every change of the board places the current
\* turn's mark (X or O) on one ring cell or on the center, the cell was empty,
\* winner() was empty, and the turn passes to the other mark.
C11_MovesFollowProtocol ==
    [][(status = "ok" /\ board' # board) =>
        /\ winner(board, dbgOn).cell = "None"
        /\ turn \in {"X", "O"}
        /\ turn' = OtherTurn(turn)
        /\ \/ /\ center' = center
              /\ ring'.cells = ring.cells
              /\ \E i \in 0..(ring.cells - 1) :
                    /\ get(ring, i) = "None"
                    /\ get(ring', i) = turn
                    /\ \A j \in 0..(ring.cells - 1) : j # i => get(ring', j) = get(ring, j)
           \/ /\ ring' = ring
              /\ center = "None"
              /\ center' = turn]_vars

\* C11 witness: a game in which both players moved on the ring and on the
\* center has been won, so that no further move is taken.
C11_Witness ==
    /\ status = "ok" /\ ring.cells = GameCells
    /\ center = "O"
    /\ MarkCount(ring, "X") = 3 /\ MarkCount(ring, "O") = 2
    /\ winner(board, dbgOn).cell = "O"
    /\ turn = "X"

\* C12: in every board the game loop reaches, all the lines wins() returns
\* carry one mark, the one winner() returns.
C12_SingleMarkWins ==
    (status = "ok" /\ ring.cells = GameCells) =>
        LET out == wins(board, dbgOn).out
        IN  \A j \in 1..Len(out) :
                /\ LineMark(board, out[j]) = LineMark(board, out[1])
                /\ LineMark(board, out[j]) = winner(board, dbgOn).cell

\* C12 witness: the last move of a game completed a ring line and a center
\* line at once.
C12_Witness ==
    /\ status = "ok" /\ ring.cells = GameCells
    /\ \E j, k \in 1..Len(wins(board, dbgOn).out) :
          /\ wins(board, dbgOn).out[j].kind = "Ring"
          /\ wins(board, dbgOn).out[k].kind = "Center"

\* C13: for every ring length in 1..20, winner() returns a mark through the
\* ring scan, and wins() lists a Ring line, only when three different ring
\* positions hold that mark.
C13_RingWinHasThreeCells ==
    /\ (/\ last.op = "winner" /\ Supported(ring) /\ ~last.panic
        /\ last.cell # "None"
        /\ ~\E i \in 0..(ring.cells - 1) : CenterLine(board, i))
       => MarkCount(ring, last.cell) >= 3
    /\ (last.op = "wins" /\ Supported(ring) /\ ~last.panic)
       => \A j \in 1..Len(last.out) :
             last.out[j].kind = "Ring"
                => MarkCount(ring, get(ring, last.out[j].index)) >= 3

====
